---- MODULE Spec2Model ----
(***************************************************************************)
(* One invocation of scripts/manage.py: main() parses a command, runs the  *)
(* command function, and maps its outcome to an exit status.  Every        *)
(* subprocess the command issues through run() is appended to `log` with   *)
(* the outcome the environment gave it.  Strings that the code inspects    *)
(* character by character (paths, answers typed at a prompt) are tuples of *)
(* one-character strings; argv tokens the code only passes on are strings. *)
(* SpecWait runs _wait_for_service_ready on its own for any timeout, and   *)
(* SpecPlugin runs the commands that scripts/manage_plugins.py registers.  *)
(***************************************************************************)
EXTENDS Integers, Sequences, FiniteSets, TLC

VARIABLES
    ENVIRONMENT,   \* os.environ.get('ENVIRONMENT', 'dev'), read at import
    running,       \* the services that are really running (docker's state)
    pc,            \* position of the invocation
    command,       \* the command function main() dispatched to
    args,          \* the parsed argparse.Namespace (the fields in use)
    log,           \* subprocesses issued through run(), in order
    printed,       \* messages written to stdout/stderr
    prompted,      \* whether confirm() has asked the user
    answer,        \* what the user gave at the prompt
    removed,       \* host files deleted with os.remove
    made_dirs,     \* host directories created with os.makedirs
    exc,           \* the exception in flight, [kind, code]
    status,        \* main()'s return value, -1 while running
    output_path,   \* cmd_backup: abs_output_path; cmd_restore: backup_path
    backup_kind,   \* cmd_restore: what is at backup_path on the host
    elapsed,       \* _wait_for_service_ready: time.time() - start
    ncu_output,    \* cmd_update_npm_packages: stdout of `ncu --target minor`
    wait           \* _wait_for_service_ready: its arguments, polls and result

vars == <<ENVIRONMENT, running, pc, command, args, log, printed, prompted,
          answer, removed, made_dirs, exc, status, output_path, backup_kind,
          elapsed, ncu_output, wait>>

----------------------------------------------------------------------------
(* Bounds of the model *)

\* longest stem (the part before the extension) of an --output value
MaxStemLen == 1
\* most polls _wait_for_service_ready makes before its timeout elapses
MaxPolls == 2

----------------------------------------------------------------------------
(* Character strings *)

S_sql == <<".", "s", "q", "l">>
S_gz == <<".", "g", "z">>
S_sql_gz == <<".", "s", "q", "l", ".", "g", "z">>
S_backups == <<"b", "a", "c", "k", "u", "p", "s">>
S_backup_dash == <<"b", "a", "c", "k", "u", "p", "-">>

\* str.endswith(suffix)
EndsWith(s, suf) ==
    /\ Len(s) >= Len(suf)
    /\ SubSeq(s, Len(s) - Len(suf) + 1, Len(s)) = suf

\* str.startswith(prefix)
StartsWith(s, pre) ==
    /\ Len(s) >= Len(pre)
    /\ SubSeq(s, 1, Len(pre)) = pre

\* str.endswith((a, b)): any of a tuple of suffixes
EndsWithAny(s, sufs) == \E suf \in sufs : EndsWith(s, suf)

IsSpace(c) == c \in {" ", "\t"}

\* str.strip(): leading and trailing whitespace removed
RECURSIVE LStrip(_)
LStrip(s) ==
    IF s # <<>> /\ IsSpace(Head(s)) THEN LStrip(Tail(s)) ELSE s

RECURSIVE RStrip(_)
RStrip(s) ==
    IF s # <<>> /\ IsSpace(s[Len(s)]) THEN RStrip(SubSeq(s, 1, Len(s) - 1)) ELSE s

Strip(s) == RStrip(LStrip(s))

\* str.lower() on the letters the model's answers use
LowerChar(c) ==
    CASE c = "Y" -> "y"
      [] c = "E" -> "e"
      [] c = "S" -> "s"
      [] c = "N" -> "n"
      [] c = "O" -> "o"
      [] OTHER -> c

Lower(s) == [i \in 1..Len(s) |-> LowerChar(s[i])]

\* all strings over alphabet A of length at most n
RECURSIVE StringsUpTo(_, _)
StringsUpTo(A, n) ==
    IF n = 0 THEN {<<>>}
    ELSE LET shorter == StringsUpTo(A, n - 1)
         IN shorter \cup {Append(s, c) : s \in shorter, c \in A}

----------------------------------------------------------------------------
(* os.path on POSIX *)

\* str.split('/')
RECURSIVE SplitSlash(_)
SplitSlash(s) ==
    IF \A i \in 1..Len(s) : s[i] # "/" THEN <<s>>
    ELSE LET k == CHOOSE i \in 1..Len(s) :
                      s[i] = "/" /\ \A j \in 1..(i - 1) : s[j] # "/"
         IN <<SubSeq(s, 1, k - 1)>> \o SplitSlash(SubSeq(s, k + 1, Len(s)))

\* '/'.join(comps)
RECURSIVE JoinSlash(_)
JoinSlash(comps) ==
    IF comps = <<>> THEN <<>>
    ELSE IF Len(comps) = 1 THEN comps[1]
    ELSE comps[1] \o <<"/">> \o JoinSlash(Tail(comps))

\* the component loop of posixpath.normpath
RECURSIVE NormComps(_, _, _)
NormComps(comps, acc, initial_slashes) ==
    IF comps = <<>> THEN acc
    ELSE LET comp == Head(comps)
             rest == Tail(comps)
         IN IF comp \in {<<>>, <<".">>} THEN NormComps(rest, acc, initial_slashes)
            ELSE IF \/ comp # <<".", ".">>
                    \/ (initial_slashes = 0 /\ acc = <<>>)
                    \/ (acc # <<>> /\ acc[Len(acc)] = <<".", ".">>)
                 THEN NormComps(rest, Append(acc, comp), initial_slashes)
            ELSE IF acc # <<>>
                 THEN NormComps(rest, SubSeq(acc, 1, Len(acc) - 1), initial_slashes)
            ELSE NormComps(rest, acc, initial_slashes)

\* posixpath.normpath
normpath(path) ==
    IF path = <<>> THEN <<".">>
    ELSE LET initial_slashes ==
                 IF ~StartsWith(path, <<"/">>) THEN 0
                 ELSE IF StartsWith(path, <<"/", "/">>) /\ ~StartsWith(path, <<"/", "/", "/">>)
                      THEN 2 ELSE 1
             joined == JoinSlash(NormComps(SplitSlash(path), <<>>, initial_slashes))
             full == [i \in 1..initial_slashes |-> "/"] \o joined
         IN IF full = <<>> THEN <<".">> ELSE full

\* posixpath.join(a, b)
os_path_join(a, b) ==
    IF StartsWith(b, <<"/">>) THEN b
    ELSE IF a = <<>> \/ EndsWith(a, <<"/">>) THEN a \o b
    ELSE a \o <<"/">> \o b

\* os.getcwd() of the invocation
Cwd == <<"/", "w">>

\* posixpath.abspath
abspath(path) ==
    normpath(IF StartsWith(path, <<"/">>) THEN path ELSE os_path_join(Cwd, path))

\* index of the last '/' of p, 0 if none
LastSlash(p) ==
    IF \A i \in 1..Len(p) : p[i] # "/" THEN 0
    ELSE CHOOSE i \in 1..Len(p) : p[i] = "/" /\ \A j \in (i + 1)..Len(p) : p[j] # "/"

\* posixpath.basename
basename(p) == SubSeq(p, LastSlash(p) + 1, Len(p))

\* str.rstrip('/')
RECURSIVE RStripSlash(_)
RStripSlash(s) ==
    IF s # <<>> /\ s[Len(s)] = "/" THEN RStripSlash(SubSeq(s, 1, Len(s) - 1)) ELSE s

\* posixpath.dirname
dirname(p) ==
    LET head == SubSeq(p, 1, LastSlash(p))
    IN IF head # <<>> /\ (\E i \in 1..Len(head) : head[i] # "/")
       THEN RStripSlash(head) ELSE head

----------------------------------------------------------------------------
(* Configuration and the helpers every command uses *)

\* values of the ENVIRONMENT variable: unset (the default 'dev'), prod, other
Environments == {"dev", "prod", "test"}

\* the services of the compose project
Services == {"web", "db"}

COMPOSE_FILE == "docker-compose." \o ENVIRONMENT \o ".yml"

get_compose_cmd == <<"docker", "compose", "-f", "docker-compose.yml", "-f", COMPOSE_FILE>>

\* how a subprocess (or a blocking read) can end: exit status 0, a non-zero
\* exit status, the program could not be started, the user pressed Ctrl-C
Outcomes == {"ok", "nonzero", "oserror", "interrupt"}

\* the exception run(cmd, check=...) raises on an outcome, "none" if it returns
run(check, outcome) ==
    CASE outcome = "nonzero" /\ check -> "CalledProcessError"
      [] outcome = "oserror" -> "OSError"
      [] outcome = "interrupt" -> "KeyboardInterrupt"
      [] OTHER -> "none"

\* a bare `except:` in place of `except Exception`: catches whatever is raised
except_Exception_bare(kind) == kind # "none"

\* whether an `except Exception` clause catches an exception of this kind:
\* SystemExit and KeyboardInterrupt derive from BaseException only
except_Exception(kind) == kind \in {"CalledProcessError", "OSError"}

\* whether an `except subprocess.CalledProcessError` clause catches it
except_CalledProcessError(kind) == kind = "CalledProcessError"

NoExc == [kind |-> "none", code |-> 0]

\* fatal(message, exit_code): sys.exit(exit_code)
fatal(exit_code) == [kind |-> "SystemExit", code |-> exit_code]

\* an exception other than SystemExit
Raised(kind) == [kind |-> kind, code |-> 0]

\* one entry of the log: argv, check=, the outcome, and the file the shell
\* script or path argument names (<<>> if none)
Entry(argv, check, outcome, file) ==
    [argv |-> argv, check |-> check, outcome |-> outcome, file |-> file]

\* the compose subcommand of a log entry, "" for a bare docker command
SubCmd(e) ==
    IF Len(e.argv) >= 2 /\ e.argv[2] = "compose"
    THEN IF Len(e.argv) >= 7 /\ e.argv[3] = "-f" THEN e.argv[7] ELSE e.argv[3]
    ELSE ""

\* docker's state after a compose subprocess: `up -d` that succeeds starts
\* the services named (a container may still exit at once), `down` that
\* succeeds stops everything
AfterCompose(sub, targets, outcome, before) ==
    IF outcome # "ok" THEN {before}
    ELSE IF sub = "down" THEN {{}}
    ELSE IF sub = "up" THEN {before \cup targets, before}
    ELSE {before}

\* cp.stdout of `compose ps --services --status running`, split into lines
running_services(outcome, now) == IF outcome = "ok" THEN now ELSE {}

\* _is_service_running that takes a failed query for a running service
is_service_running_fail_open(outcome, now, service_name) ==
    IF except_Exception(run(TRUE, outcome)) THEN TRUE
    ELSE service_name \in running_services(outcome, now)

\* _is_service_running: a failed query counts as not running
is_service_running(outcome, now, service_name) ==
    IF except_Exception(run(TRUE, outcome)) THEN FALSE
    ELSE service_name \in running_services(outcome, now)

PsArgv == get_compose_cmd \o <<"ps", "--services", "--status", "running">>

----------------------------------------------------------------------------
(* confirm() *)

\* what the user can give at the prompt: a line, end of input, Ctrl-C
AnswerLines ==
    { <<"y">>, <<"Y">>, <<"y", "e", "s">>, <<" ", "Y", "E", "S", " ">>,
      <<"n">>, <<"N", "O">>, <<>>, <<" ">>, <<"y", "e">>, <<"y", " ", "y">>,
      <<"y", "e", "s", "!">> }

Inputs ==
    [kind : {"line"}, text : AnswerLines]
        \cup {[kind |-> "eof", text |-> <<>>], [kind |-> "interrupt", text |-> <<>>]}

NoInput == [kind |-> "none", text |-> <<>>]

\* confirm() that takes any answer beginning with y
confirm_startswith(inp) ==
    IF inp.kind = "eof" THEN FALSE
    ELSE StartsWith(Lower(Strip(inp.text)), <<"y">>)

\* confirm(prompt), for an input that is a line or end of input
confirm(inp) ==
    IF inp.kind = "eof" THEN FALSE
    ELSE Lower(Strip(inp.text)) \in {<<"y">>, <<"y", "e", "s">>}

----------------------------------------------------------------------------
(* main() *)

\* main() whose `except Exception` branch prints and falls off the end
main_status_no_return(e) ==
    CASE e.kind = "none" -> 0
      [] e.kind = "KeyboardInterrupt" -> 130
      [] e.kind = "SystemExit" -> e.code
      [] OTHER -> 0

\* main()'s return value for the exception that escaped args.func(args)
main_status(e) ==
    CASE e.kind = "none" -> 0
      [] e.kind = "KeyboardInterrupt" -> 130
      [] e.kind = "SystemExit" -> e.code
      [] OTHER -> 1

\* an optional integer argument (type=int): None, or the value given
None == [given |-> FALSE, val |-> 0]

Some(n) == [given |-> TRUE, val |-> n]

\* the integers given on the command line
IntValues == {0, 1, 12}

OptInts == {None} \cup {Some(n) : n \in IntValues}

\* bool(x) of an optional integer: None and 0 are falsy
Truthy(opt) == opt.given /\ opt.val # 0

NoArgs ==
    [yes |-> FALSE, volumes |-> FALSE, output |-> <<>>, compress |-> TRUE,
     backup_file |-> <<>>, flags |-> {}, service |-> <<>>,
     email |-> "", name |-> "", password |-> "", id |-> None,
     list_command |-> "", param |-> None, limit |-> None, due |-> FALSE,
     text |-> "", no_compress |-> FALSE,
     user_id |-> None, topic_id |-> None, deck_id |-> None, card_id |-> 0]

\* no call of _wait_for_service_ready so far
NoWait == [service |-> "", timeout |-> 0, ready |-> "none", polls |-> <<>>]

\* _wait_for_service_ready(compose, service, timeout) has just been called
Waiting(service, timeout) ==
    [service |-> service, timeout |-> timeout, ready |-> "none", polls |-> <<>>]

Init ==
    /\ ENVIRONMENT \in Environments
    /\ running \in SUBSET Services
    /\ pc = "parse"
    /\ command = "none"
    /\ args = NoArgs
    /\ log = <<>>
    /\ printed = {}
    /\ prompted = FALSE
    /\ answer = NoInput
    /\ removed = {}
    /\ made_dirs = {}
    /\ exc = NoExc
    /\ status = -1
    /\ output_path = <<>>
    /\ backup_kind = "none"
    /\ elapsed = 0
    /\ ncu_output = <<>>
    /\ wait = NoWait

\* the state a command function is left in: it returned, or `e` escaped it
Leave(e) ==
    /\ exc' = e
    /\ pc' = IF e.kind = "none" THEN "return" ELSE "raise"

\* main(): the try block around args.func(args), once the function is left
main_return ==
    /\ pc \in {"return", "raise"}
    /\ status' = main_status(exc)
    /\ printed' = printed \cup
          (CASE exc.kind = "KeyboardInterrupt" -> {"Interrupted."}
             [] exc.kind \in {"CalledProcessError", "OSError"} -> {"Unhandled error"}
             [] OTHER -> {})
    /\ pc' = "done"
    /\ UNCHANGED <<ENVIRONMENT, running, command, args, log, prompted, answer,
                   removed, made_dirs, exc, output_path, backup_kind, elapsed,
                   ncu_output, wait>>

----------------------------------------------------------------------------
(* build, up, down, logs, status, stats: one subprocess each *)

ServiceLists == {<<>>, <<"web">>, <<"db">>, <<"web", "db">>}

SeqToSet(s) == {s[i] : i \in 1..Len(s)}

\* a command that is a single run(cmd) with check=True
RunOnly(name, a, argv, targets, o) ==
    /\ pc = "parse"
    /\ command' = name
    /\ args' = a
    /\ log' = Append(log, Entry(argv, TRUE, o, <<>>))
    /\ running' \in AfterCompose(SubCmd(Entry(argv, TRUE, o, <<>>)), targets, o, running)
    /\ Leave(IF run(TRUE, o) = "none" THEN NoExc ELSE Raised(run(TRUE, o)))
    /\ UNCHANGED <<ENVIRONMENT, printed, prompted, answer, removed, made_dirs,
                   status, output_path, backup_kind, elapsed, ncu_output, wait>>

cmd_build(no_cache, pull, service, o) ==
    RunOnly("build",
            [NoArgs EXCEPT !.flags = (IF no_cache THEN {"no_cache"} ELSE {})
                                     \cup (IF pull THEN {"pull"} ELSE {}),
                           !.service = service],
            get_compose_cmd \o <<"build">>
                \o (IF no_cache THEN <<"--no-cache">> ELSE <<>>)
                \o (IF pull THEN <<"--pull">> ELSE <<>>)
                \o service,
            {}, o)

cmd_up(detached, service, o) ==
    RunOnly("up",
            [NoArgs EXCEPT !.flags = IF detached THEN {"detached"} ELSE {},
                           !.service = service],
            get_compose_cmd \o <<"up">>
                \o (IF detached THEN <<"-d">> ELSE <<>>)
                \o service,
            IF ~detached THEN {}
            ELSE IF service = <<>> THEN Services ELSE SeqToSet(service),
            o)

cmd_down(o) ==
    RunOnly("down", NoArgs, get_compose_cmd \o <<"down">>, {}, o)

cmd_logs(follow, timestamps, service, o) ==
    RunOnly("logs",
            [NoArgs EXCEPT !.flags = (IF follow THEN {"follow"} ELSE {})
                                     \cup (IF timestamps THEN {"timestamps"} ELSE {}),
                           !.service = service],
            get_compose_cmd \o <<"logs">>
                \o (IF follow THEN <<"--follow">> ELSE <<>>)
                \o (IF timestamps THEN <<"--timestamps">> ELSE <<>>)
                \o service,
            {}, o)

cmd_status(o) ==
    RunOnly("status", NoArgs, get_compose_cmd \o <<"ps">>, {}, o)

cmd_stats(o) ==
    RunOnly("stats", NoArgs, <<"docker", "stats">>, {}, o)

----------------------------------------------------------------------------
(* clean *)

\* the user's reply to a confirm() prompt at position `at`: Ctrl-C escapes,
\* a declined prompt prints "Aborted." and returns, otherwise go on at `next`
Confirm(at, inp, next) ==
    /\ pc = at
    /\ prompted' = TRUE
    /\ answer' = inp
    /\ IF inp.kind = "interrupt"
       THEN Leave(Raised("KeyboardInterrupt")) /\ UNCHANGED printed
       ELSE IF ~confirm(inp)
       THEN Leave(NoExc) /\ printed' = printed \cup {"Aborted."}
       ELSE pc' = next /\ UNCHANGED <<exc, printed>>

cmd_clean_begin(yes, volumes) ==
    /\ pc = "parse"
    /\ command' = "clean"
    /\ args' = [NoArgs EXCEPT !.yes = yes, !.volumes = volumes]
    /\ pc' = IF yes THEN "clean_prune" ELSE "clean_confirm"
    /\ UNCHANGED <<ENVIRONMENT, running, log, printed, prompted, answer, removed,
                   made_dirs, exc, status, output_path, backup_kind, elapsed,
                   ncu_output, wait>>

cmd_clean_confirm(inp) ==
    /\ Confirm("clean_confirm", inp, "clean_prune")
    /\ UNCHANGED <<ENVIRONMENT, running, command, args, log, removed, made_dirs,
                   status, output_path, backup_kind, elapsed, ncu_output, wait>>

cmd_clean_prune(o) ==
    /\ pc = "clean_prune"
    /\ log' = Append(log, Entry(<<"docker", "system", "prune", "-f">>, TRUE, o, <<>>))
    /\ IF run(TRUE, o) # "none" THEN Leave(Raised(run(TRUE, o)))
       ELSE IF args.volumes THEN pc' = "clean_volumes" /\ UNCHANGED exc
       ELSE Leave(NoExc)
    /\ UNCHANGED <<ENVIRONMENT, running, command, args, printed, prompted, answer,
                   removed, made_dirs, status, output_path, backup_kind, elapsed,
                   ncu_output, wait>>

cmd_clean_volumes(o) ==
    /\ pc = "clean_volumes"
    /\ log' = Append(log, Entry(<<"docker", "volume", "prune", "-f">>, TRUE, o, <<>>))
    /\ Leave(IF run(TRUE, o) = "none" THEN NoExc ELSE Raised(run(TRUE, o)))
    /\ UNCHANGED <<ENVIRONMENT, running, command, args, printed, prompted, answer,
                   removed, made_dirs, status, output_path, backup_kind, elapsed,
                   ncu_output, wait>>

----------------------------------------------------------------------------
(* backup *)

\* __file__ when the script is started as scripts/manage.py
ScriptFile ==
    <<"s", "c", "r", "i", "p", "t", "s", "/", "m", "a", "n", "a", "g", "e", ".", "p", "y">>

\* datetime.now().strftime("%Y-%m-%dT%H-%M-%S")
Timestamps ==
    { <<"2", "0", "2", "5", "-", "0", "1", "-", "3", "1", "T",
        "2", "3", "-", "5", "9", "-", "0", "7">> }

\* the endings an --output value is given
OutputSuffixes ==
    { <<>>, S_sql, S_gz, S_sql_gz, S_gz \o S_sql, <<"s", "q", "l">>,
      <<".", "g">>, <<".", "S", "Q", "L">>, <<".", "s", "q", "l", "/">> }

\* --output values; <<>> is the option left out (or given empty)
Outputs ==
    {stem \o suf : stem \in StringsUpTo({"a", ".", "/"}, MaxStemLen), suf \in OutputSuffixes}

\* cmd_backup that leaves an --output value as given when not compressing
backup_output_path_keep(output, compress, timestamp) ==
    IF output # <<>>
    THEN IF compress /\ ~EndsWithAny(output, {S_gz, S_sql_gz})
         THEN (IF ~EndsWith(output, S_sql) THEN output \o S_sql ELSE output) \o S_gz
         ELSE output
    ELSE LET backups_dir == os_path_join(dirname(dirname(ScriptFile)), S_backups)
             filename == S_backup_dash \o timestamp \o S_sql
                            \o (IF compress THEN S_gz ELSE <<>>)
         IN os_path_join(backups_dir, filename)

\* cmd_backup, "Determine output file": output_path before abspath
backup_output_path(output, compress, timestamp) ==
    IF output # <<>>
    THEN IF compress /\ ~EndsWithAny(output, {S_gz, S_sql_gz})
         THEN (IF ~EndsWith(output, S_sql) THEN output \o S_sql ELSE output) \o S_gz
         ELSE IF ~compress /\ ~EndsWith(output, S_sql)
         THEN output \o S_sql
         ELSE output
    ELSE LET backups_dir == os_path_join(dirname(dirname(ScriptFile)), S_backups)
             filename == S_backup_dash \o timestamp \o S_sql
                            \o (IF compress THEN S_gz ELSE <<>>)
         IN os_path_join(backups_dir, filename)

\* the directories cmd_backup creates on the host before it dumps
backup_made_dirs(output, abs_output_path) ==
    (IF output = <<>>
     THEN {os_path_join(dirname(dirname(ScriptFile)), S_backups)} ELSE {})
        \cup {dirname(abs_output_path)}

\* the shell script cmd_backup runs in the db container
backup_dump_cmd(compress) ==
    IF compress THEN "pg_dump -F p | gzip > /tmp/<file>"
    ELSE "pg_dump -F p -f /tmp/<file>"

\* "Check if db service is running" of cmd_backup: the exception that leaves
\* the try statement and the messages fatal() printed on the way
check_db_running(outcome, now) ==
    LET raised == run(TRUE, outcome)
        absent == raised = "none" /\ "db" \notin running_services(outcome, now)
        inner == IF absent THEN "SystemExit" ELSE raised
        first == IF absent THEN {"Service 'db' is not running"} ELSE {}
    IN IF except_Exception(inner)
       THEN [kind |-> "SystemExit", msgs |-> first \cup {"Could not check"}]
       ELSE [kind |-> inner, msgs |-> first]

\* the exception record for a check_db_running result
CheckExc(res) ==
    IF res.kind = "SystemExit" THEN fatal(1)
    ELSE IF res.kind = "none" THEN NoExc
    ELSE Raised(res.kind)

cmd_backup_begin(output, compress, timestamp, o) ==
    /\ pc = "parse"
    /\ command' = "backup"
    /\ args' = [NoArgs EXCEPT !.output = output, !.compress = compress]
    /\ log' = Append(log, Entry(PsArgv, TRUE, o, <<>>))
    /\ LET res == check_db_running(o, running)
           abs_output_path == abspath(backup_output_path(output, compress, timestamp))
       IN /\ printed' = printed \cup res.msgs
          /\ IF res.kind # "none"
             THEN /\ Leave(CheckExc(res))
                  /\ UNCHANGED <<output_path, made_dirs>>
             ELSE /\ output_path' = abs_output_path
                  /\ made_dirs' = made_dirs \cup backup_made_dirs(output, abs_output_path)
                  /\ pc' = "backup_dump"
                  /\ UNCHANGED exc
    /\ UNCHANGED <<ENVIRONMENT, running, prompted, answer, removed, status,
                   backup_kind, elapsed, ncu_output, wait>>

cmd_backup_dump(o) ==
    /\ pc = "backup_dump"
    /\ log' = Append(log, Entry(get_compose_cmd \o <<"exec", "-T", "db", "sh", "-c",
                                                      backup_dump_cmd(args.compress)>>,
                                TRUE, o, basename(output_path)))
    /\ IF run(TRUE, o) # "none" THEN Leave(Raised(run(TRUE, o)))
       ELSE pc' = "backup_cp" /\ UNCHANGED exc
    /\ UNCHANGED <<ENVIRONMENT, running, command, args, printed, prompted, answer,
                   removed, made_dirs, status, output_path, backup_kind, elapsed,
                   ncu_output, wait>>

cmd_backup_cp(o) ==
    /\ pc = "backup_cp"
    /\ log' = Append(log, Entry(<<"docker", "compose", "cp", "db:/tmp/<file>", "<abs_output_path>">>,
                                TRUE, o, basename(output_path)))
    /\ IF run(TRUE, o) # "none" THEN Leave(Raised(run(TRUE, o)))
       ELSE pc' = "backup_rm" /\ UNCHANGED exc
    /\ UNCHANGED <<ENVIRONMENT, running, command, args, printed, prompted, answer,
                   removed, made_dirs, status, output_path, backup_kind, elapsed,
                   ncu_output, wait>>

\* the exception that escapes a cleanup `try: run(..., check=False)
\* except Exception: pass`
cleanup_raises(outcome) ==
    IF except_Exception(run(FALSE, outcome)) THEN "none" ELSE run(FALSE, outcome)

cmd_backup_rm(o) ==
    /\ pc = "backup_rm"
    /\ log' = Append(log, Entry(get_compose_cmd \o <<"exec", "-T", "db", "rm", "-f", "/tmp/<file>">>,
                                FALSE, o, basename(output_path)))
    /\ IF cleanup_raises(o) # "none"
       THEN Leave(Raised(cleanup_raises(o))) /\ UNCHANGED printed
       ELSE Leave(NoExc) /\ printed' = printed \cup {"Backup created successfully"}
    /\ UNCHANGED <<ENVIRONMENT, running, command, args, prompted, answer, removed,
                   made_dirs, status, output_path, backup_kind, elapsed, ncu_output, wait>>

----------------------------------------------------------------------------
(* restore *)

\* backup_file arguments of restore
RestoreFiles ==
    { <<"a">> \o S_sql, <<"a">> \o S_sql_gz, <<"a">> \o S_gz, <<"a">>,
      <<"d", "/", "a">> \o S_gz \o S_sql, <<".", ".", "/", "b">> \o S_sql_gz }

\* what can be at backup_path on the host
PathKinds == {"missing", "dir", "file"}

\* cmd_restore that checks os.path.exists only
restore_validate_exists_only(kind) ==
    IF kind = "missing" THEN "Backup file not found" ELSE ""

\* "Validate backup file exists" of cmd_restore: the message fatal() is
\* called with, "" if the path is a regular file
restore_validate(kind) ==
    IF kind = "missing" THEN "Backup file not found"
    ELSE IF kind # "file" THEN "Path is not a file"
    ELSE ""

\* "Check if db service is running" of cmd_restore
restore_check_db_running(outcome, now) == check_db_running(outcome, now)

\* "Determine if file is compressed" of cmd_restore
is_compressed(backup_path) ==
    EndsWith(backup_path, S_gz) \/ EndsWith(backup_path, S_sql_gz)

\* the shell script cmd_restore runs in the db container
restore_cmd(backup_path) ==
    IF is_compressed(backup_path) THEN "gunzip < /tmp/<file> | psql"
    ELSE "psql -f /tmp/<file>"

DropCmd == "psql -c DROP SCHEMA public CASCADE; CREATE SCHEMA public;"

cmd_restore_begin(backup_file, kind, yes, o) ==
    /\ pc = "parse"
    /\ command' = "restore"
    /\ args' = [NoArgs EXCEPT !.backup_file = backup_file, !.yes = yes]
    /\ output_path' = abspath(backup_file)
    /\ backup_kind' = kind
    /\ IF restore_validate(kind) # ""
       THEN /\ printed' = printed \cup {restore_validate(kind)}
            /\ Leave(fatal(1))
            /\ UNCHANGED log
       ELSE LET res == restore_check_db_running(o, running)
            IN /\ log' = Append(log, Entry(PsArgv, TRUE, o, <<>>))
               /\ printed' = printed \cup res.msgs
               /\ IF res.kind # "none" THEN Leave(CheckExc(res))
                  ELSE /\ pc' = IF yes THEN "restore_cp" ELSE "restore_confirm"
                       /\ UNCHANGED exc
    /\ UNCHANGED <<ENVIRONMENT, running, prompted, answer, removed, made_dirs,
                   status, elapsed, ncu_output, wait>>

cmd_restore_confirm(inp) ==
    /\ Confirm("restore_confirm", inp, "restore_cp")
    /\ UNCHANGED <<ENVIRONMENT, running, command, args, log, removed, made_dirs,
                   status, output_path, backup_kind, elapsed, ncu_output, wait>>

cmd_restore_cp(o) ==
    /\ pc = "restore_cp"
    /\ log' = Append(log, Entry(get_compose_cmd \o <<"cp", "<backup_path>", "db:/tmp/<file>">>,
                                TRUE, o, basename(output_path)))
    /\ IF run(TRUE, o) # "none" THEN Leave(Raised(run(TRUE, o)))
       ELSE pc' = "restore_drop" /\ UNCHANGED exc
    /\ UNCHANGED <<ENVIRONMENT, running, command, args, printed, prompted, answer,
                   removed, made_dirs, status, output_path, backup_kind, elapsed,
                   ncu_output, wait>>

\* inside the try: an exception goes to the finally block, held in exc
cmd_restore_drop(o) ==
    /\ pc = "restore_drop"
    /\ log' = Append(log, Entry(get_compose_cmd \o <<"exec", "-T", "db", "sh", "-c", DropCmd>>,
                                TRUE, o, <<>>))
    /\ IF run(TRUE, o) # "none"
       THEN exc' = Raised(run(TRUE, o)) /\ pc' = "restore_cleanup"
       ELSE pc' = "restore_exec" /\ UNCHANGED exc
    /\ UNCHANGED <<ENVIRONMENT, running, command, args, printed, prompted, answer,
                   removed, made_dirs, status, output_path, backup_kind, elapsed,
                   ncu_output, wait>>

cmd_restore_exec(o) ==
    /\ pc = "restore_exec"
    /\ log' = Append(log, Entry(get_compose_cmd \o <<"exec", "-T", "db", "sh", "-c",
                                                      restore_cmd(output_path)>>,
                                TRUE, o, basename(output_path)))
    /\ IF run(TRUE, o) # "none"
       THEN exc' = Raised(run(TRUE, o)) /\ UNCHANGED printed
       ELSE printed' = printed \cup {"Backup restored successfully."} /\ UNCHANGED exc
    /\ pc' = "restore_cleanup"
    /\ UNCHANGED <<ENVIRONMENT, running, command, args, prompted, answer, removed,
                   made_dirs, status, output_path, backup_kind, elapsed, ncu_output, wait>>

\* the finally block without its try/except around the removal
restore_cleanup_unguarded(outcome) == run(FALSE, outcome)

\* the exception that escapes the cleanup in cmd_restore's finally block
restore_cleanup_raises(outcome) == cleanup_raises(outcome)

\* the finally block: the cleanup's own exception replaces the one in
\* flight, otherwise the one in flight goes on
cmd_restore_cleanup(o) ==
    /\ pc = "restore_cleanup"
    /\ log' = Append(log, Entry(get_compose_cmd \o <<"exec", "-T", "db", "rm", "-f", "/tmp/<file>">>,
                                FALSE, o, basename(output_path)))
    /\ IF restore_cleanup_raises(o) # "none"
       THEN Leave(Raised(restore_cleanup_raises(o)))
       ELSE Leave(exc)
    /\ UNCHANGED <<ENVIRONMENT, running, command, args, printed, prompted, answer,
                   removed, made_dirs, status, output_path, backup_kind, elapsed,
                   ncu_output, wait>>

----------------------------------------------------------------------------
(* update-npm-packages *)

\* the timeout cmd_update_npm_packages gives _wait_for_service_ready
WaitTimeout == 60

\* seconds one iteration of the polling loop takes (the query and sleep(1))
PollSeconds == WaitTimeout \div MaxPolls

\* stdout of `ncu --target minor` as lines of character classes: "sp" white
\* space, "a" a letter, "@", "1" any other character, "->" the arrow
NcuOutputs ==
    { <<>>,
      << <<"a", "sp", "a">> >>,
      << <<"a", "sp", "a">>, <<"sp", "@", "a", "sp", "1", "sp", "->", "sp", "1">> >>,
      << <<"->", "sp", "a">> >>,
      << <<"1", "a", "->">>, <<"sp", "sp">> >>,
      << <<"sp">>, <<"a", "->">> >> }

RECURSIVE LStripSp(_)
LStripSp(line) ==
    IF line # <<>> /\ Head(line) = "sp" THEN LStripSp(Tail(line)) ELSE line

\* re.search(r'^\s*[@a-zA-Z].*->', ncu_output, re.MULTILINE)
has_updates(out) ==
    \E i \in 1..Len(out) :
        LET l == LStripSp(out[i])
        IN /\ l # <<>>
           /\ Head(l) \in {"@", "a"}
           /\ \E j \in 2..Len(l) : l[j] = "->"

\* a check that refuses production only
not_dev_prod_only(env) == env = "prod"

\* "Only allow in dev environment": whether the command refuses
not_dev(env) == env # "dev"

\* the exception that escapes _is_service_running
is_service_running_raises(outcome) ==
    IF except_Exception(run(TRUE, outcome)) THEN "none" ELSE run(TRUE, outcome)

NpmFrame == <<ENVIRONMENT, command, args, prompted, answer, made_dirs, status,
              output_path, backup_kind>>

DownArgv == get_compose_cmd \o <<"down">>

cmd_update_npm_begin(o) ==
    /\ pc = "parse"
    /\ command' = "update-npm-packages"
    /\ IF not_dev(ENVIRONMENT)
       THEN /\ printed' = printed \cup {"only available in development environment"}
            /\ Leave(fatal(1))
            /\ UNCHANGED log
       ELSE /\ log' = Append(log, Entry(PsArgv, TRUE, o, <<>>))
            /\ IF is_service_running_raises(o) # "none"
               THEN Leave(Raised(is_service_running_raises(o))) /\ UNCHANGED printed
               ELSE IF is_service_running(o, running, "web")
               THEN /\ printed' = printed \cup {"web service is running"}
                    /\ Leave(fatal(1))
               ELSE pc' = "npm_confirm" /\ UNCHANGED <<exc, printed>>
    /\ UNCHANGED <<ENVIRONMENT, running, args, prompted, answer, removed, made_dirs,
                   status, output_path, backup_kind, elapsed, ncu_output, wait>>

cmd_update_npm_confirm(inp) ==
    /\ Confirm("npm_confirm", inp, "npm_remove")
    /\ UNCHANGED <<ENVIRONMENT, running, command, args, log, removed, made_dirs,
                   status, output_path, backup_kind, elapsed, ncu_output, wait>>

\* delete package-lock.json if it exists, then `compose rm -f -v web`
cmd_update_npm_remove(lock_exists, o) ==
    /\ pc = "npm_remove"
    /\ removed' = IF lock_exists THEN removed \cup {"web/package-lock.json"} ELSE removed
    /\ log' = Append(log, Entry(get_compose_cmd \o <<"rm", "-f", "-v", "web">>, TRUE, o, <<>>))
    /\ IF run(TRUE, o) # "none" /\ ~except_CalledProcessError(run(TRUE, o))
       THEN Leave(Raised(run(TRUE, o)))
       ELSE pc' = "npm_up" /\ UNCHANGED exc
    /\ UNCHANGED <<NpmFrame, running, printed, elapsed, ncu_output, wait>>

cmd_update_npm_up(o) ==
    /\ pc = "npm_up"
    /\ log' = Append(log, Entry(get_compose_cmd \o <<"up", "-d", "web">>, TRUE, o, <<>>))
    /\ running' \in AfterCompose("up", {"web"}, o, running)
    /\ elapsed' = 0
    /\ wait' = IF run(TRUE, o) = "none" THEN Waiting("web", WaitTimeout) ELSE wait
    /\ IF except_CalledProcessError(run(TRUE, o))
       THEN /\ printed' = printed \cup {"Could not start web service for update"}
            /\ Leave(fatal(1))
       ELSE IF run(TRUE, o) # "none"
       THEN Leave(Raised(run(TRUE, o))) /\ UNCHANGED printed
       ELSE pc' = "npm_wait" /\ UNCHANGED <<exc, printed>>
    /\ UNCHANGED <<NpmFrame, removed, ncu_output>>

\* _wait_for_service_ready's loop condition: time.time() - start < timeout
wait_goes_on(now, timeout) == now < timeout

\* one iteration of _wait_for_service_ready's loop: the container may have
\* come up since the last look; a query that reports the service running
\* returns True, otherwise sleep(1) and look again
wait_for_service_ready_poll(started, o, sleep_interrupted) ==
    /\ pc = "npm_wait"
    /\ wait_goes_on(elapsed, wait.timeout)
    /\ running' = IF started THEN running \cup {wait.service} ELSE running
    /\ log' = Append(log, Entry(PsArgv, TRUE, o, <<>>))
    /\ LET poll == [at |-> elapsed, outcome |-> o, up |-> wait.service \in running']
           polled == [wait EXCEPT !.polls = Append(@, poll)]
       IN IF is_service_running_raises(o) # "none"
          THEN /\ Leave(Raised(is_service_running_raises(o)))
               /\ wait' = polled
               /\ UNCHANGED elapsed
          ELSE IF is_service_running(o, running', wait.service)
          THEN /\ pc' = "npm_check"
               /\ wait' = [polled EXCEPT !.ready = "True"]
               /\ UNCHANGED <<exc, elapsed>>
          ELSE IF sleep_interrupted
          THEN /\ Leave(Raised("KeyboardInterrupt"))
               /\ wait' = polled
               /\ UNCHANGED elapsed
          ELSE /\ elapsed' = elapsed + PollSeconds
               /\ wait' = polled
               /\ UNCHANGED <<pc, exc>>
    /\ UNCHANGED <<NpmFrame, printed, removed, ncu_output>>

\* the loop condition fails: _wait_for_service_ready returns False
wait_for_service_ready_timeout ==
    /\ pc = "npm_wait"
    /\ ~wait_goes_on(elapsed, wait.timeout)
    /\ wait' = [wait EXCEPT !.ready = "False"]
    /\ pc' = "npm_timed_out"
    /\ UNCHANGED <<NpmFrame, running, log, printed, removed, exc, elapsed, ncu_output>>

\* `compose down` with check=False, then fatal() or return: `after` is the
\* exception record the code goes on with when the subprocess call returns
DownThen(at, o, msg, after) ==
    /\ pc = at
    /\ log' = Append(log, Entry(DownArgv, FALSE, o, <<>>))
    /\ running' \in AfterCompose("down", {}, o, running)
    /\ IF run(FALSE, o) # "none"
       THEN Leave(Raised(run(FALSE, o))) /\ UNCHANGED printed
       ELSE Leave(after) /\ printed' = printed \cup {msg}
    /\ UNCHANGED <<NpmFrame, removed, elapsed, ncu_output, wait>>

\* _wait_for_service_ready returned False
cmd_update_npm_timeout(o) ==
    DownThen("npm_timed_out", o, "Service failed to start within timeout", fatal(1))

\* "Check what would be updated first"
cmd_update_npm_check(out, o) ==
    /\ pc = "npm_check"
    /\ log' = Append(log, Entry(get_compose_cmd \o <<"exec", "-T", "web", "npx", "ncu",
                                                      "--target", "minor">>,
                                FALSE, o, <<>>))
    /\ IF run(FALSE, o) # "none" /\ ~except_Exception(run(FALSE, o))
       THEN Leave(Raised(run(FALSE, o))) /\ UNCHANGED ncu_output
       ELSE /\ ncu_output' = IF except_Exception(run(FALSE, o)) THEN <<>> ELSE out
            /\ pc' = IF has_updates(ncu_output') THEN "npm_apply" ELSE "npm_uptodate"
            /\ UNCHANGED exc
    /\ UNCHANGED <<NpmFrame, running, printed, removed, elapsed, wait>>

cmd_update_npm_uptodate(o) ==
    DownThen("npm_uptodate", o, "All packages are already up to date", NoExc)

\* a step that runs `compose exec -T web <tool>` with check=True inside
\* try/except CalledProcessError
NpmExec(at, tool, o, failed, next) ==
    /\ pc = at
    /\ log' = Append(log, Entry(get_compose_cmd \o <<"exec", "-T", "web">> \o tool, TRUE, o, <<>>))
    /\ IF except_CalledProcessError(run(TRUE, o))
       THEN pc' = failed /\ UNCHANGED exc
       ELSE IF run(TRUE, o) # "none"
       THEN Leave(Raised(run(TRUE, o)))
       ELSE pc' = next /\ UNCHANGED exc
    /\ UNCHANGED <<NpmFrame, running, printed, removed, elapsed, ncu_output, wait>>

cmd_update_npm_apply(o) ==
    NpmExec("npm_apply", <<"npx", "ncu", "--target", "minor", "-u">>, o,
            "npm_apply_failed", "npm_install")

cmd_update_npm_apply_failed(o) ==
    DownThen("npm_apply_failed", o, "Update aborted", fatal(1))

cmd_update_npm_install(o) ==
    NpmExec("npm_install", <<"npm", "install">>, o, "npm_install_failed", "npm_stop")

cmd_update_npm_install_failed(o) ==
    DownThen("npm_install_failed", o, "Installation failed", fatal(1))

cmd_update_npm_stop(o) ==
    DownThen("npm_stop", o, "Package updates completed successfully!", NoExc)

----------------------------------------------------------------------------
(* db subcommands of manage.py *)

\* optional string arguments: "" is the option left out (or given empty)
Emails == {"", "a@b.c"}

Names == {"", "Ann"}

Passwords == {"", "pw"}

SearchTexts == {"", "cat"}

ListCommands == {"users", "topics", "decks", "cards", "card", "all"}

\* the positional parameter of a `db list` subparser (param_attr): none for
\* users and all, optional for topics, decks and cards, required for card
ListParams(list_command) ==
    CASE list_command \in {"users", "all"} -> {None}
      [] list_command = "card" -> {Some(n) : n \in IntValues}
      [] OTHER -> OptInts

\* the subparsers that define --limit
ListLimits(list_command) ==
    IF list_command \in {"card", "all"} THEN {None} ELSE OptInts

\* the subparsers that define --due
ListDues(list_command) ==
    IF list_command = "cards" THEN BOOLEAN ELSE {FALSE}

\* _require_service_running that trusts a query it could not make
require_service_running_lenient(outcome, now, service_name) ==
    IF is_service_running_raises(outcome) # "none"
    THEN Raised(is_service_running_raises(outcome))
    ELSE IF outcome = "ok" /\ service_name \notin now THEN fatal(1)
    ELSE NoExc

\* _require_service_running: the exception that leaves it
require_service_running(outcome, now, service_name) ==
    IF is_service_running_raises(outcome) # "none"
    THEN Raised(is_service_running_raises(outcome))
    ELSE IF ~is_service_running(outcome, now, service_name) THEN fatal(1)
    ELSE NoExc

ExecWeb(tty) == get_compose_cmd \o <<"exec", tty, "web", "npx", "tsx">>

\* cmd built by cmd_db_create_user
db_create_user_cmd(a) ==
    ExecWeb("-it") \o <<"scripts/create-user.ts">>
        \o (IF a.email # "" THEN <<"--email", a.email>> ELSE <<>>)
        \o (IF a.name # "" THEN <<"--name", a.name>> ELSE <<>>)
        \o (IF a.password # "" THEN <<"--password", a.password>> ELSE <<>>)

\* cmd built by cmd_db_reset_password
db_reset_password_cmd(a) ==
    ExecWeb("-it") \o <<"scripts/reset-password.ts">>
        \o (IF a.email # "" THEN <<"--email", a.email>> ELSE <<>>)
        \o (IF Truthy(a.id) THEN <<"--id", ToString(a.id.val)>> ELSE <<>>)

\* cmd built by cmd_db_delete_user
db_delete_user_cmd(a) ==
    ExecWeb("-it") \o <<"scripts/delete-user.ts">>
        \o (IF a.email # "" THEN <<"--email", a.email>> ELSE <<>>)
        \o (IF Truthy(a.id) THEN <<"--id", ToString(a.id.val)>> ELSE <<>>)
        \o (IF a.yes THEN <<"--yes">> ELSE <<>>)

\* what cmd_db_list passes to scripts/view-data.ts
db_list_view_args(a) ==
    <<a.list_command>>
        \o (IF a.param.given THEN <<ToString(a.param.val)>> ELSE <<>>)
        \o (IF a.limit.given THEN <<"--limit", ToString(a.limit.val)>> ELSE <<>>)
        \o (IF a.due THEN <<"--due">> ELSE <<>>)

\* what cmd_db_search passes to scripts/view-data.ts
db_search_view_args(a) ==
    <<"search", a.text>>
        \o (IF a.limit.given THEN <<"--limit", ToString(a.limit.val)>> ELSE <<>>)
        \o (IF a.due THEN <<"--due">> ELSE <<>>)

ViewData == ExecWeb("-T") \o <<"scripts/view-data.ts">>

\* the cmd a db subcommand runs once the web service is known to run
db_cmd(name, a) ==
    CASE name = "db create-user" -> db_create_user_cmd(a)
      [] name = "db reset-password" -> db_reset_password_cmd(a)
      [] name = "db delete-user" -> db_delete_user_cmd(a)
      [] name = "db list" -> ViewData \o db_list_view_args(a)
      [] name = "db summary" -> ViewData \o <<"summary">>
      [] OTHER -> ViewData \o db_search_view_args(a)

\* the head of every db subcommand: _require_service_running(compose, "web")
DbBegin(name, a, o) ==
    /\ pc = "parse"
    /\ command' = name
    /\ args' = a
    /\ log' = Append(log, Entry(PsArgv, TRUE, o, <<>>))
    /\ LET e == require_service_running(o, running, "web")
       IN /\ printed' = IF e.kind = "SystemExit"
                        THEN printed \cup {"web container is not running"} ELSE printed
          /\ IF e.kind # "none" THEN Leave(e)
             ELSE pc' = "db_run" /\ UNCHANGED exc
    /\ UNCHANGED <<ENVIRONMENT, running, prompted, answer, removed, made_dirs,
                   status, output_path, backup_kind, elapsed, ncu_output, wait>>

cmd_db_create_user(email, name, password, o) ==
    DbBegin("db create-user",
            [NoArgs EXCEPT !.email = email, !.name = name, !.password = password], o)

cmd_db_reset_password(email, id, o) ==
    DbBegin("db reset-password", [NoArgs EXCEPT !.email = email, !.id = id], o)

cmd_db_delete_user(email, id, yes, o) ==
    DbBegin("db delete-user", [NoArgs EXCEPT !.email = email, !.id = id, !.yes = yes], o)

cmd_db_list(list_command, param, limit, due, o) ==
    DbBegin("db list",
            [NoArgs EXCEPT !.list_command = list_command, !.param = param,
                           !.limit = limit, !.due = due], o)

cmd_db_summary(o) == DbBegin("db summary", NoArgs, o)

cmd_db_search(text, limit, due, o) ==
    DbBegin("db search", [NoArgs EXCEPT !.text = text, !.limit = limit, !.due = due], o)

\* the tail of every db subcommand: run(cmd)
cmd_db_run(o) ==
    /\ pc = "db_run"
    /\ log' = Append(log, Entry(db_cmd(command, args), TRUE, o, <<>>))
    /\ Leave(IF run(TRUE, o) = "none" THEN NoExc ELSE Raised(run(TRUE, o)))
    /\ UNCHANGED <<ENVIRONMENT, running, command, args, printed, prompted, answer,
                   removed, made_dirs, status, output_path, backup_kind, elapsed,
                   ncu_output, wait>>

----------------------------------------------------------------------------

Next ==
    \/ main_return
    \/ \E o \in Outcomes, b1, b2 \in BOOLEAN, s \in ServiceLists :
          \/ cmd_build(b1, b2, s, o)
          \/ cmd_up(b1, s, o)
          \/ cmd_logs(b1, b2, s, o)
    \/ \E o \in Outcomes :
          \/ cmd_down(o)
          \/ cmd_status(o)
          \/ cmd_stats(o)
          \/ cmd_clean_prune(o)
          \/ cmd_clean_volumes(o)
    \/ \E yes, volumes \in BOOLEAN : cmd_clean_begin(yes, volumes)
    \/ \E inp \in Inputs : cmd_clean_confirm(inp)
    \/ \E output \in Outputs, compress \in BOOLEAN, ts \in Timestamps, o \in Outcomes :
          cmd_backup_begin(output, compress, ts, o)
    \/ \E o \in Outcomes :
          \/ cmd_backup_dump(o)
          \/ cmd_backup_cp(o)
          \/ cmd_backup_rm(o)
    \/ \E f \in RestoreFiles, kind \in PathKinds, yes \in BOOLEAN, o \in Outcomes :
          cmd_restore_begin(f, kind, yes, o)
    \/ \E inp \in Inputs : cmd_restore_confirm(inp)
    \/ \E o \in Outcomes :
          \/ cmd_restore_cp(o)
          \/ cmd_restore_drop(o)
          \/ cmd_restore_exec(o)
          \/ cmd_restore_cleanup(o)
    \/ \E inp \in Inputs : cmd_update_npm_confirm(inp)
    \/ \E o \in Outcomes, lock_exists \in BOOLEAN : cmd_update_npm_remove(lock_exists, o)
    \/ \E o \in Outcomes, started, sleep_interrupted \in BOOLEAN :
          wait_for_service_ready_poll(started, o, sleep_interrupted)
    \/ wait_for_service_ready_timeout
    \/ \E o \in Outcomes, out \in NcuOutputs : cmd_update_npm_check(out, o)
    \/ \E o \in Outcomes :
          \/ cmd_update_npm_begin(o)
          \/ cmd_update_npm_up(o)
          \/ cmd_update_npm_timeout(o)
          \/ cmd_update_npm_uptodate(o)
          \/ cmd_update_npm_apply(o)
          \/ cmd_update_npm_apply_failed(o)
          \/ cmd_update_npm_install(o)
          \/ cmd_update_npm_install_failed(o)
          \/ cmd_update_npm_stop(o)
    \/ \E o \in Outcomes, email \in Emails, id \in OptInts :
          \/ \E name \in Names, password \in Passwords :
                cmd_db_create_user(email, name, password, o)
          \/ cmd_db_reset_password(email, id, o)
          \/ \E yes \in BOOLEAN : cmd_db_delete_user(email, id, yes, o)
    \/ \E o \in Outcomes, list_command \in ListCommands :
          \E param \in ListParams(list_command), limit \in ListLimits(list_command),
             due \in ListDues(list_command) :
                cmd_db_list(list_command, param, limit, due, o)
    \/ \E o \in Outcomes, text \in SearchTexts, limit \in OptInts, due \in BOOLEAN :
          cmd_db_search(text, limit, due, o)
    \/ \E o \in Outcomes :
          \/ cmd_db_summary(o)
          \/ cmd_db_run(o)

Spec == Init /\ [][Next]_vars

----------------------------------------------------------------------------
(* _wait_for_service_ready on its own, for any service and timeout *)

\* timeouts the function is called with
WaitTimeouts == {-1, 0, 1, PollSeconds + 1, WaitTimeout}

InitWait ==
    /\ ENVIRONMENT \in Environments
    /\ running \in SUBSET Services
    /\ pc = "npm_wait"
    /\ command = "none"
    /\ args = NoArgs
    /\ log = <<>>
    /\ printed = {}
    /\ prompted = FALSE
    /\ answer = NoInput
    /\ removed = {}
    /\ made_dirs = {}
    /\ exc = NoExc
    /\ status = -1
    /\ output_path = <<>>
    /\ backup_kind = "none"
    /\ elapsed = 0
    /\ ncu_output = <<>>
    /\ wait \in {Waiting(service, timeout) : service \in Services, timeout \in WaitTimeouts}

NextWait ==
    \/ \E o \in Outcomes, started, sleep_interrupted \in BOOLEAN :
          wait_for_service_ready_poll(started, o, sleep_interrupted)
    \/ wait_for_service_ready_timeout

SpecWait == InitWait /\ [][NextWait]_vars

----------------------------------------------------------------------------
(* manage_plugins.py: the commands the plugin registers.  CommandContext,
   run and confirm are imported from the framework's manage module; a call
   of one of them is a step that either returns or raises. *)

\* how a call into the framework ends
CtxOutcomes == {"returns", "raises"}

\* ctx.project_dir
project_dir == Cwd

\* Path.resolve() where no component is a symbolic link: os.path.realpath
\* makes the path absolute and normal, and leaves one leading slash
resolve(path) ==
    LET a == abspath(path)
    IN IF StartsWith(a, <<"/", "/">>) THEN Tail(a) ELSE a

\* PurePath.name of a resolved path
path_name(path) == basename(path)

\* PurePath.suffix: the name from its last dot on, unless that dot is the
\* first or the last character of the name
path_suffix(path) ==
    LET name == path_name(path)
        dots == {k \in 1..Len(name) : name[k] = "."}
        i == IF dots = {} THEN 0 ELSE CHOOSE k \in dots : \A j \in dots : j <= k
    IN IF 1 < i /\ i < Len(name) THEN SubSeq(name, i, Len(name)) ELSE <<>>

\* compress = not getattr(ctx.args, "no_compress", False)
plugin_compress(a) == ~a.no_compress

\* "Determine output path" of the plugin's cmd_backup, before resolve()
plugin_output_path(output, compress, timestamp) ==
    IF output # <<>>
    THEN output
    ELSE os_path_join(os_path_join(project_dir, S_backups),
                      S_backup_dash \o timestamp \o (IF compress THEN S_sql_gz ELSE S_sql))

\* the shell script the plugin's cmd_backup runs in the db container
plugin_dump_cmd(compress) ==
    IF compress THEN "pg_dump -F p | gzip > /tmp/<file>"
    ELSE "pg_dump -F p -f /tmp/<file>"

\* is_compressed of the plugin's cmd_restore
plugin_is_compressed(backup_path) ==
    path_suffix(backup_path) = S_gz \/ EndsWith(backup_path, S_sql_gz)

\* the shell script the plugin's cmd_restore runs in the db container
plugin_restore_cmd(backup_path) ==
    IF plugin_is_compressed(backup_path) THEN "gunzip < /tmp/<file> | psql"
    ELSE "psql -f /tmp/<file>"

\* ctx.compose(*words, check=...)
CtxCompose(words, check, o, file) == Entry(<<"ctx.compose">> \o words, check, o, file)

\* a framework call made at `at`: go on to `next` if it returns
CtxStep(at, entry, o, next) ==
    /\ pc = at
    /\ log' = Append(log, entry)
    /\ IF o = "raises" THEN Leave(Raised("Exception")) ELSE pc' = next /\ UNCHANGED exc
    /\ UNCHANGED <<ENVIRONMENT, running, command, args, printed, prompted, answer,
                   removed, made_dirs, status, output_path, backup_kind, elapsed,
                   ncu_output, wait>>

\* the last framework call of a command function
CtxLast(at, entry, o) ==
    /\ pc = at
    /\ log' = Append(log, entry)
    /\ Leave(IF o = "raises" THEN Raised("Exception") ELSE NoExc)
    /\ UNCHANGED <<ENVIRONMENT, running, command, args, printed, prompted, answer,
                   removed, made_dirs, status, output_path, backup_kind, elapsed,
                   ncu_output, wait>>

\* plugin cmd_backup up to the dump: ctx.require_service_running, the output
\* path
plugin_cmd_backup_begin(output, no_compress, timestamp, o) ==
    /\ pc = "parse"
    /\ command' = "plugin backup"
    /\ args' = [NoArgs EXCEPT !.output = output, !.no_compress = no_compress]
    /\ IF o = "raises"
       THEN /\ Leave(fatal(1))
            /\ UNCHANGED <<output_path, made_dirs>>
       ELSE /\ output_path' = resolve(plugin_output_path(output, plugin_compress(args'),
                                                         timestamp))
            /\ made_dirs' = made_dirs \cup
                  (IF output = <<>> THEN {os_path_join(project_dir, S_backups)} ELSE {})
            /\ pc' = "plugin_backup_dump"
            /\ UNCHANGED exc
    /\ UNCHANGED <<ENVIRONMENT, running, log, printed, prompted, answer, removed,
                   status, backup_kind, elapsed, ncu_output, wait>>

plugin_cmd_backup_dump(o) ==
    CtxStep("plugin_backup_dump",
            CtxCompose(<<"exec", "-T", "db", "sh", "-c", plugin_dump_cmd(plugin_compress(args))>>,
                       TRUE, o, path_name(output_path)),
            o, "plugin_backup_cp")

\* run(["docker", "compose", "cp", ...]): the dump is now at abs_output_path
plugin_cmd_backup_cp(o) ==
    CtxStep("plugin_backup_cp",
            Entry(<<"docker", "compose", "cp", "db:/tmp/<file>", "<abs_output_path>">>,
                  TRUE, o, path_name(output_path)),
            o, "plugin_backup_rm")

plugin_cmd_backup_rm(o) ==
    CtxLast("plugin_backup_rm",
            CtxCompose(<<"exec", "-T", "db", "rm", "-f", "/tmp/<file>">>,
                       FALSE, o, path_name(output_path)),
            o)

\* plugin cmd_restore up to the confirmation: the two checks of backup_path,
\* ctx.require_service_running
plugin_cmd_restore_begin(backup_file, kind, yes, o) ==
    /\ pc = "parse"
    /\ command' = "plugin restore"
    /\ args' = [NoArgs EXCEPT !.backup_file = backup_file, !.yes = yes]
    /\ output_path' = resolve(backup_file)
    /\ backup_kind' = kind
    /\ IF kind # "file"
       THEN /\ Leave(fatal(1))
            /\ printed' = printed \cup {IF kind = "missing" THEN "Backup file not found"
                                        ELSE "Path is not a file"}
       ELSE /\ IF o = "raises" THEN Leave(fatal(1))
               ELSE pc' = (IF yes THEN "plugin_restore_cp" ELSE "plugin_restore_confirm")
                    /\ UNCHANGED exc
            /\ UNCHANGED printed
    /\ UNCHANGED <<ENVIRONMENT, running, log, prompted, answer, removed, made_dirs,
                   status, elapsed, ncu_output, wait>>

\* confirm(...) of the framework: True, False, or it raises
plugin_cmd_restore_confirm(result) ==
    /\ pc = "plugin_restore_confirm"
    /\ prompted' = TRUE
    /\ CASE result = "raises" -> Leave(Raised("Exception")) /\ UNCHANGED printed
         [] result = "False" -> Leave(NoExc) /\ printed' = printed \cup {"Aborted."}
         [] OTHER -> pc' = "plugin_restore_cp" /\ UNCHANGED <<exc, printed>>
    /\ UNCHANGED <<ENVIRONMENT, running, command, args, log, answer, removed,
                   made_dirs, status, output_path, backup_kind, elapsed, ncu_output,
                   wait>>

plugin_cmd_restore_cp(o) ==
    CtxStep("plugin_restore_cp",
            CtxCompose(<<"cp", "<backup_path>", "db:/tmp/<file>">>, TRUE, o,
                       path_name(output_path)),
            o, "plugin_restore_drop")

\* inside the try statement: a call that raises goes to the finally clause
plugin_cmd_restore_drop(o) ==
    /\ pc = "plugin_restore_drop"
    /\ log' = Append(log, CtxCompose(<<"exec", "-T", "db", "sh", "-c", DropCmd>>, TRUE, o, <<>>))
    /\ exc' = IF o = "raises" THEN Raised("Exception") ELSE NoExc
    /\ pc' = IF o = "raises" THEN "plugin_restore_finally" ELSE "plugin_restore_exec"
    /\ UNCHANGED <<ENVIRONMENT, running, command, args, printed, prompted, answer,
                   removed, made_dirs, status, output_path, backup_kind, elapsed,
                   ncu_output, wait>>

plugin_cmd_restore_exec(o) ==
    /\ pc = "plugin_restore_exec"
    /\ log' = Append(log, CtxCompose(<<"exec", "-T", "db", "sh", "-c",
                                       plugin_restore_cmd(output_path)>>,
                                     TRUE, o, path_name(output_path)))
    /\ exc' = IF o = "raises" THEN Raised("Exception") ELSE NoExc
    /\ printed' = IF o = "raises" THEN printed
                  ELSE printed \cup {"Backup restored successfully"}
    /\ pc' = "plugin_restore_finally"
    /\ UNCHANGED <<ENVIRONMENT, running, command, args, prompted, answer, removed,
                   made_dirs, status, output_path, backup_kind, elapsed, ncu_output,
                   wait>>

\* the finally clause: an exception raised in it replaces the pending one
plugin_cmd_restore_finally(o) ==
    /\ pc = "plugin_restore_finally"
    /\ log' = Append(log, CtxCompose(<<"exec", "-T", "db", "rm", "-f", "/tmp/<file>">>,
                                     FALSE, o, path_name(output_path)))
    /\ Leave(IF o = "raises" THEN Raised("Exception") ELSE exc)
    /\ UNCHANGED <<ENVIRONMENT, running, command, args, printed, prompted, answer,
                   removed, made_dirs, status, output_path, backup_kind, elapsed,
                   ncu_output, wait>>

\* the plugin's view-data.ts commands
PluginDbCommands ==
    {"plugin db search", "plugin db-list-users", "plugin db-list-topics",
     "plugin db-list-decks", "plugin db-list-cards", "plugin db-list-card",
     "plugin db-list-all"}

\* `if ctx.args.limit: cmd.extend(["--limit", str(ctx.args.limit)])`
plugin_limit(a) == IF Truthy(a.limit) THEN <<"--limit", ToString(a.limit.val)>> ELSE <<>>

\* `if ctx.args.due: cmd.append("--due")`
plugin_due(a) == IF a.due THEN <<"--due">> ELSE <<>>

\* `if ctx.args.<id>: cmd.append(str(ctx.args.<id>))`
plugin_id(opt) == IF Truthy(opt) THEN <<ToString(opt.val)>> ELSE <<>>

\* what each plugin command passes to scripts/view-data.ts
plugin_db_view_args(name, a) ==
    CASE name = "plugin db search" ->
            <<"search", a.text>> \o plugin_limit(a) \o plugin_due(a)
      [] name = "plugin db-list-users" ->
            <<"users">> \o plugin_limit(a)
      [] name = "plugin db-list-topics" ->
            <<"topics">> \o plugin_id(a.user_id) \o plugin_limit(a)
      [] name = "plugin db-list-decks" ->
            <<"decks">> \o plugin_id(a.topic_id) \o plugin_limit(a)
      [] name = "plugin db-list-cards" ->
            <<"cards">> \o plugin_id(a.deck_id) \o plugin_limit(a) \o plugin_due(a)
      [] name = "plugin db-list-card" ->
            <<"card", ToString(a.card_id)>>
      [] OTHER -> <<"all">>

PluginViewData == <<"exec", "-T", "web", "npx", "tsx", "scripts/view-data.ts">>

\* the head of every plugin db command: ctx.require_service_running("web")
PluginDbBegin(name, a, o) ==
    /\ pc = "parse"
    /\ command' = name
    /\ args' = a
    /\ IF o = "raises" THEN Leave(fatal(1))
       ELSE pc' = "plugin_db_run" /\ UNCHANGED exc
    /\ UNCHANGED <<ENVIRONMENT, running, log, printed, prompted, answer, removed,
                   made_dirs, status, output_path, backup_kind, elapsed, ncu_output,
                   wait>>

plugin_cmd_db_search(text, limit, due, o) ==
    PluginDbBegin("plugin db search",
                  [NoArgs EXCEPT !.text = text, !.limit = limit, !.due = due], o)

plugin_cmd_db_list_users(limit, o) ==
    PluginDbBegin("plugin db-list-users", [NoArgs EXCEPT !.limit = limit], o)

plugin_cmd_db_list_topics(user_id, limit, o) ==
    PluginDbBegin("plugin db-list-topics",
                  [NoArgs EXCEPT !.user_id = user_id, !.limit = limit], o)

plugin_cmd_db_list_decks(topic_id, limit, o) ==
    PluginDbBegin("plugin db-list-decks",
                  [NoArgs EXCEPT !.topic_id = topic_id, !.limit = limit], o)

plugin_cmd_db_list_cards(deck_id, limit, due, o) ==
    PluginDbBegin("plugin db-list-cards",
                  [NoArgs EXCEPT !.deck_id = deck_id, !.limit = limit, !.due = due], o)

plugin_cmd_db_list_card(card_id, o) ==
    PluginDbBegin("plugin db-list-card", [NoArgs EXCEPT !.card_id = card_id], o)

plugin_cmd_db_list_all(o) == PluginDbBegin("plugin db-list-all", NoArgs, o)

\* the tail of every plugin db command: ctx.compose(*cmd)
plugin_cmd_db_run(o) ==
    CtxLast("plugin_db_run",
            CtxCompose(PluginViewData \o plugin_db_view_args(command, args), TRUE, o, <<>>),
            o)

NextPlugin ==
    \/ \E output \in Outputs, no_compress \in BOOLEAN, ts \in Timestamps, o \in CtxOutcomes :
          plugin_cmd_backup_begin(output, no_compress, ts, o)
    \/ \E o \in CtxOutcomes :
          \/ plugin_cmd_backup_dump(o)
          \/ plugin_cmd_backup_cp(o)
          \/ plugin_cmd_backup_rm(o)
          \/ plugin_cmd_restore_cp(o)
          \/ plugin_cmd_restore_drop(o)
          \/ plugin_cmd_restore_exec(o)
          \/ plugin_cmd_restore_finally(o)
    \/ \E f \in RestoreFiles, kind \in PathKinds, yes \in BOOLEAN, o \in CtxOutcomes :
          plugin_cmd_restore_begin(f, kind, yes, o)
    \/ \E result \in {"True", "False", "raises"} : plugin_cmd_restore_confirm(result)
    \/ \E limit, id \in OptInts, due \in BOOLEAN, o \in CtxOutcomes :
          \/ \E text \in SearchTexts : plugin_cmd_db_search(text, limit, due, o)
          \/ plugin_cmd_db_list_users(limit, o)
          \/ plugin_cmd_db_list_topics(id, limit, o)
          \/ plugin_cmd_db_list_decks(id, limit, o)
          \/ plugin_cmd_db_list_cards(id, limit, due, o)
    \/ \E card_id \in IntValues, o \in CtxOutcomes : plugin_cmd_db_list_card(card_id, o)
    \/ \E o \in CtxOutcomes :
          \/ plugin_cmd_db_list_all(o)
          \/ plugin_cmd_db_run(o)

SpecPlugin == Init /\ [][NextPlugin]_vars

----------------------------------------------------------------------------
(* Vocabulary of the properties *)

Done == pc = "done"

\* the command function has been left (returned or raised)
Left == pc \in {"return", "raise", "done"}

UpdateNpm == command = "update-npm-packages"

HasToken(e, tok) == \E k \in 1..Len(e.argv) : e.argv[k] = tok

\* a subprocess that changes something: prune, cp, exec, rm, up, down
Destructive(e) ==
    \/ SubCmd(e) \in {"cp", "exec", "rm", "up", "down"}
    \/ HasToken(e, "prune")

\* the user declined: end of input, or a line that is not y/yes once trimmed
\* and lower-cased
Declined(inp) ==
    \/ inp.kind = "eof"
    \/ inp.kind = "line" /\ Lower(Strip(inp.text)) \notin {<<"y">>, <<"y", "e", "s">>}

\* the exit status Python gives an outcome of a checked subprocess that
\* nothing catches
StatusOf(outcome) ==
    CASE outcome = "ok" -> 0
      [] outcome = "interrupt" -> 130
      [] OTHER -> 1

----------------------------------------------------------------------------
(* C1 *)

\* C1: cmd_update_npm_packages stops the web service when complete: on every
\* path that goes past a successful `compose up -d web`, a `compose down` is
\* issued before the command returns or exits.
C1_DownAfterSuccessfulUp ==
    (UpdateNpm /\ Left) =>
        \A i \in 1..Len(log) :
            (SubCmd(log[i]) = "up" /\ log[i].outcome = "ok")
                => \E j \in (i + 1)..Len(log) : SubCmd(log[j]) = "down"

----------------------------------------------------------------------------
(* C2 *)

\* C2: when ENVIRONMENT is not 'dev', cmd_update_npm_packages exits with a
\* non-zero status before it queries the service state, prompts the user,
\* deletes any file or runs any subprocess.
C2_DevOnly ==
    (UpdateNpm /\ ENVIRONMENT # "dev") =>
        /\ pc \in {"raise", "done"}
        /\ exc.kind = "SystemExit" /\ exc.code # 0
        /\ log = <<>>
        /\ ~prompted
        /\ removed = {}
        /\ (Done => status # 0)

C2_Witness ==
    Done /\ UpdateNpm /\ ENVIRONMENT = "prod" /\ status = 1 /\ log = <<>>

----------------------------------------------------------------------------
(* C3 *)

\* C3: whenever the web service is running at the time of the call,
\* cmd_update_npm_packages exits with an error and has not prompted, deleted
\* package-lock.json, removed the web container/volumes, or started any
\* service.  (While the log holds only the first query, `running` is still
\* the state at the time of the call.)
C3_RunningWebRefused ==
    (UpdateNpm /\ Len(log) = 1 /\ "web" \in running) =>
        /\ pc \in {"raise", "done"}
        /\ exc.kind # "none"
        /\ ~prompted
        /\ removed = {}
        /\ (Done => status # 0)

----------------------------------------------------------------------------
(* C4 *)

\* C4: a declined confirmation performs nothing destructive: when confirm()
\* returns False in clean, restore or update-npm-packages, the command prints
\* 'Aborted.' and returns without running any prune, cp, exec, rm, up or down
\* subprocess and without deleting any file.
C4_DeclinedDoesNothing ==
    (prompted /\ Declined(answer)) =>
        /\ command \in {"clean", "restore", "update-npm-packages"}
        /\ pc \in {"return", "done"}
        /\ exc.kind = "none"
        /\ "Aborted." \in printed
        /\ \A i \in 1..Len(log) : ~Destructive(log[i])
        /\ removed = {}
        /\ (Done => status = 0)

C4_Witness ==
    /\ Done /\ command = "restore" /\ prompted
    /\ answer = [kind |-> "line", text |-> <<"y", "e">>]
    /\ "Aborted." \in printed
    /\ Len(log) = 1

----------------------------------------------------------------------------
(* C5 *)

\* C5: backup and restore agree on compression: for every file path that
\* cmd_backup writes, cmd_restore's detection (path ends in '.gz') is true
\* exactly when the backup was written through gzip, so gunzip is applied to
\* exactly the compressed dumps.
C5_CompressionAgrees ==
    command = "backup" =>
        \A i \in 2..Len(log) :
            (SubCmd(log[i]) = "cp" /\ log[i].outcome = "ok") =>
                /\ is_compressed(output_path) <=> HasToken(log[i - 1], "pg_dump -F p | gzip > /tmp/<file>")
                /\ (restore_cmd(output_path) = "gunzip < /tmp/<file> | psql")
                       <=> HasToken(log[i - 1], "pg_dump -F p | gzip > /tmp/<file>")
                /\ log[i].file = basename(output_path)
                /\ log[i - 1].file = basename(output_path)

C5_Witness ==
    /\ Done /\ command = "backup" /\ status = 0
    /\ ~args.compress
    /\ args.output = <<"a">> \o S_gz
    /\ ~is_compressed(output_path)

----------------------------------------------------------------------------
(* C6 *)

\* C6: cmd_backup ensures a '.sql.gz' extension if compressing, or '.sql' if
\* not: the final output path ends with '.sql.gz' when compression is on and
\* ends with '.sql' and not '.gz' when --no-compress is given.
C6_Extension ==
    (command = "backup" /\ output_path # <<>>) =>
        IF args.compress
        THEN EndsWith(output_path, S_sql_gz)
        ELSE EndsWith(output_path, S_sql) /\ ~EndsWith(output_path, S_gz)

----------------------------------------------------------------------------
(* C7 *)

\* nothing beyond the query has happened
C7_OnlyQueried ==
    /\ Len(log) = 1
    /\ made_dirs = {}
    /\ ~prompted
    /\ pc \in {"raise", "done"}
    /\ exc = [kind |-> "SystemExit", code |-> 1]
    /\ (Done => status = 1)

\* C7: cmd_backup and cmd_restore require the 'db' service to be running:
\* when 'db' is not listed the command exits non-zero with the "Service 'db'
\* is not running" message (not swallowed into "Could not check"), and when
\* the query itself fails it exits with "Could not check"; in both cases no
\* pg_dump, psql, cp or rm is issued, no output directory is created and
\* restore does not prompt.
C7_RequiresDb ==
    (command \in {"backup", "restore"} /\ log # <<>>) =>
        /\ log[1].argv = PsArgv
        /\ (log[1].outcome = "ok" /\ "db" \notin running) =>
              /\ C7_OnlyQueried
              /\ "Service 'db' is not running" \in printed
              /\ "Could not check" \notin printed
        /\ log[1].outcome \in {"nonzero", "oserror"} =>
              /\ C7_OnlyQueried
              /\ "Could not check" \in printed
              /\ "Service 'db' is not running" \notin printed

C7_Witness ==
    /\ Done /\ command = "backup" /\ status = 1
    /\ log[1].outcome = "ok" /\ "db" \notin running
    /\ "Service 'db' is not running" \in printed

----------------------------------------------------------------------------
(* C8 *)

\* C8: cmd_restore validates the backup file first: when the given path does
\* not exist or is not a regular file, it exits with an error before checking
\* the db service, prompting, or running any subprocess, and the database is
\* left untouched.
C8_ValidatesFirst ==
    (command = "restore" /\ backup_kind # "file") =>
        /\ pc \in {"raise", "done"}
        /\ exc = [kind |-> "SystemExit", code |-> 1]
        /\ log = <<>>
        /\ ~prompted
        /\ printed \cap {"Backup file not found", "Path is not a file"} # {}
        /\ (Done => status = 1)

C8_Witness ==
    /\ Done /\ command = "restore" /\ backup_kind = "dir"
    /\ "Path is not a file" \in printed /\ status = 1

----------------------------------------------------------------------------
(* C9 *)

\* the exception a checked subprocess with this outcome raises
C9_Raises(outcome) ==
    CASE outcome = "ok" -> "none"
      [] outcome = "nonzero" -> "CalledProcessError"
      [] outcome = "oserror" -> "OSError"
      [] OTHER -> "KeyboardInterrupt"

\* the outcome of the try block that starts after the copy at log[i]: the
\* schema drop's exception, else the restore's
C9_TryOutcome(i) ==
    IF log[i + 1].outcome # "ok" THEN C9_Raises(log[i + 1].outcome)
    ELSE C9_Raises(log[i + 2].outcome)

\* C9: cmd_restore always cleans up the temp file in the container: once the
\* backup file has been copied into the db container, `rm -f /tmp/<basename>`
\* is issued on every exit path, and a failure of that removal (a non-zero
\* exit, or the subprocess failing to start) never changes the command's
\* outcome.
C9_AlwaysCleansUp ==
    (command = "restore" /\ Left) =>
        \A i \in 1..Len(log) :
            (SubCmd(log[i]) = "cp" /\ log[i].outcome = "ok") =>
                LET last == log[Len(log)]
                IN /\ Len(log) > i + 1
                   /\ SubCmd(last) = "exec" /\ HasToken(last, "rm") /\ HasToken(last, "-f")
                   /\ last.file = basename(output_path)
                   /\ last.outcome # "interrupt" => exc.kind = C9_TryOutcome(i)
                   /\ (last.outcome # "interrupt" /\ Done) =>
                         status = (CASE C9_TryOutcome(i) = "none" -> 0
                                     [] C9_TryOutcome(i) = "KeyboardInterrupt" -> 130
                                     [] OTHER -> 1)

C9_Witness ==
    /\ Done /\ command = "restore" /\ status = 0
    /\ Len(log) = 5
    /\ log[2].outcome = "ok" /\ log[3].outcome = "ok" /\ log[4].outcome = "ok"
    /\ log[5].outcome = "oserror"

----------------------------------------------------------------------------
(* C10 *)

\* C10: main() maps outcomes to exit statuses: 0 if and only if the command
\* function returned normally, 130 on KeyboardInterrupt, the code given to
\* fatal() (1 at every call site) when the command called fatal(), and 1 for
\* any other exception, including a CalledProcessError from a wrapped
\* subprocess that exited non-zero under check=True.
C10_ExitStatus ==
    Done =>
        /\ status = 0 <=> exc.kind = "none"
        /\ exc.kind = "KeyboardInterrupt" => status = 130
        /\ exc.kind = "SystemExit" => (status = exc.code /\ status = 1)
        /\ exc.kind \in {"CalledProcessError", "OSError"} => status = 1
        /\ command \in {"build", "up", "down", "logs", "status", "stats"} =>
              (log[1].check /\ status = StatusOf(log[1].outcome))

C10_Witness ==
    /\ Done /\ command = "down" /\ log[1].outcome = "nonzero"
    /\ exc.kind = "CalledProcessError" /\ status = 1

----------------------------------------------------------------------------
(* C11 *)

DbCommands ==
    {"db create-user", "db reset-password", "db delete-user", "db list",
     "db summary", "db search"}

\* C11: every db subcommand of manage.py requires the web service to be
\* running: if the running-services query does not list 'web' or fails, the
\* command exits non-zero and issues no `exec` into the web container.
C11_DbRequiresWeb ==
    (command \in DbCommands /\ log # <<>>) =>
        /\ log[1].argv = PsArgv
        /\ (log[1].outcome # "ok" \/ "web" \notin running) =>
              /\ Len(log) = 1
              /\ \A i \in 1..Len(log) : SubCmd(log[i]) # "exec"
              /\ pc \in {"raise", "done"}
              /\ exc.kind # "none"
              /\ (Done => status # 0)
        /\ (log[1].outcome \in {"nonzero", "oserror"}
                \/ (log[1].outcome = "ok" /\ "web" \notin running)) =>
              (exc = [kind |-> "SystemExit", code |-> 1] /\ (Done => status = 1))

C11_Witness ==
    /\ Done /\ command = "db list" /\ args.list_command = "cards"
    /\ log[1].outcome = "nonzero" /\ "web" \in running
    /\ Len(log) = 1 /\ status = 1

----------------------------------------------------------------------------
(* C12 *)

\* C12: every `docker compose` subprocess issued by any manage.py command is
\* the base compose command with environment-specific files, i.e. it starts
\* with `docker compose -f docker-compose.yml -f docker-compose.<ENVIRONMENT>.yml`.
C12_ComposeUsesEnvFiles ==
    \A i \in 1..Len(log) :
        StartsWith(log[i].argv, <<"docker", "compose">>) =>
            StartsWith(log[i].argv,
                       <<"docker", "compose", "-f", "docker-compose.yml", "-f",
                         "docker-compose." \o ENVIRONMENT \o ".yml">>)

----------------------------------------------------------------------------
(* C13 *)

\* a poll whose query succeeded and listed the service
C13_Reported(poll) == poll.outcome = "ok" /\ poll.up

\* C13: _wait_for_service_ready returns True if and only if some poll of
\* _is_service_running made while the elapsed time was below `timeout`
\* reported the service running, and False if and only if every such poll
\* reported it not running (a query failure counts as not running); with
\* timeout <= 0 it returns False without polling.
C13_WaitResult ==
    /\ \A i \in 1..Len(wait.polls) : wait.polls[i].at < wait.timeout
    /\ wait.ready = "True" <=> \E i \in 1..Len(wait.polls) : C13_Reported(wait.polls[i])
    /\ wait.ready = "False" =>
          /\ \A i \in 1..Len(wait.polls) : ~C13_Reported(wait.polls[i])
          /\ elapsed >= wait.timeout
    /\ wait.timeout <= 0 =>
          /\ wait.polls = <<>>
          /\ (wait # NoWait /\ pc # "npm_wait") => wait.ready = "False"

C13_Witness ==
    /\ wait.ready = "True"
    /\ Len(wait.polls) = 2
    /\ wait.polls[1].outcome = "nonzero" /\ wait.polls[1].up
    /\ wait.polls[2].at > 0

C13_WitnessNoPoll ==
    wait.timeout <= 0 /\ wait.service = "db" /\ wait.ready = "False" /\ log = <<>>

----------------------------------------------------------------------------
(* C14 *)

\* C14: the plugin's backup and restore agree on compression: for every
\* file path that manage_plugins.cmd_backup writes (any --output value or the
\* default name, with or without --no-compress), manage_plugins.cmd_restore's
\* detection is true exactly when the backup was written through gzip.
C14_PluginCompressionAgrees ==
    command = "plugin backup" =>
        \A i \in 2..Len(log) :
            (log[i].argv[3] = "cp" /\ log[i].outcome = "returns") =>
                /\ plugin_is_compressed(output_path) <=> HasToken(log[i - 1], "pg_dump -F p | gzip > /tmp/<file>")
                /\ (plugin_restore_cmd(output_path) = "gunzip < /tmp/<file> | psql")
                       <=> plugin_compress(args)

----------------------------------------------------------------------------
(* C15 *)

\* the namespace manage.py's parser builds from the option values of a
\* plugin command: `db search`, or `db list <kind>` with the id as its
\* positional parameter
C15_ManageArgs ==
    CASE command = "plugin db search" -> args
      [] command = "plugin db-list-users" -> [args EXCEPT !.list_command = "users"]
      [] command = "plugin db-list-topics" ->
            [args EXCEPT !.list_command = "topics", !.param = args.user_id]
      [] command = "plugin db-list-decks" ->
            [args EXCEPT !.list_command = "decks", !.param = args.topic_id]
      [] command = "plugin db-list-cards" ->
            [args EXCEPT !.list_command = "cards", !.param = args.deck_id]
      [] command = "plugin db-list-card" ->
            [args EXCEPT !.list_command = "card", !.param = Some(args.card_id)]
      [] OTHER -> [args EXCEPT !.list_command = "all"]

\* what manage.py passes to scripts/view-data.ts for the same option values
C15_ManageViewArgs ==
    IF command = "plugin db search" THEN db_search_view_args(C15_ManageArgs)
    ELSE db_list_view_args(C15_ManageArgs)

\* C15: the plugin commands are equivalent to manage.py's db commands: for
\* every combination of option values (every integer value of --limit and of
\* the optional user/topic/deck id including 0, and either setting of --due)
\* plugin db-list-users/topics/decks/cards/card/all and `db search` pass the
\* same argument list to scripts/view-data.ts as manage.py's `db list <kind>`
\* and `db search` do.
C15_PluginPassesSameArgs ==
    command \in PluginDbCommands =>
        \A i \in 1..Len(log) :
            HasToken(log[i], "scripts/view-data.ts") =>
                SubSeq(log[i].argv, Len(CtxCompose(PluginViewData, TRUE, "returns", <<>>).argv) + 1,
                       Len(log[i].argv))
                    = C15_ManageViewArgs

====
